---- MODULE Spec2Model ----
(***************************************************************************)
(* A model of src/app.py, the Streamlit script of the Indian stock         *)
(* dashboard.  One rerun of the script is one action.  The frame returned  *)
(* by yf.download is modelled by its Close column (integer prices); the    *)
(* pandas and numpy float results are modelled exactly, as rationals with  *)
(* the IEEE special values nan and +-inf.                                  *)
(*                                                                         *)
(* Lines 105-147 of src/app.py (the price chart) are written at column 0   *)
(* although they sit between line 104 and line 150, both inside the try    *)
(* of line 54.  The model reads them at the nesting of the code around     *)
(* them.                                                                   *)
(***************************************************************************)
EXTENDS Integers, Sequences, FiniteSets, TLC

VARIABLES
    ticker,         \* sidebar: the ticker the widgets currently yield (l.32-37)
    period,         \* sidebar: the selected period (l.40)
    session_state,  \* st.session_state: a function on the keys that are set
    market,         \* the Close series the data provider serves to yf.download
    fetched,        \* <<ticker, period>> of the yf.download call of the last run, << >> if none
    df,             \* the frame of the last run: column name -> column
    ma20_value,     \* l.170/172
    ma50_value,     \* l.176/178
    rsi_val,        \* l.187/189
    delta,          \* l.182, << >> while unbound
    gain,           \* l.183
    loss,           \* l.184
    rs,             \* l.185
    display_df,     \* l.220-226
    page,           \* the elements the last run put on the page, in order
    run_end,        \* how the last run ended: landing, stopped, aborted, done
    last_click      \* history: <<ticker, period>> of the sidebar at the latest Analyze click

vars == <<ticker, period, session_state, market, fetched, df, ma20_value,
          ma50_value, rsi_val, delta, gain, loss, rs, display_df, page, run_end,
          last_click>>

----------------------------------------------------------------------------
(* Bounds of the model *)

MaxLen == 51
Base == 200

(* Windows of the indicators *)
W20 == 20
W50 == 50
W14 == 14
MinBars == 2
TailRows == 10
Overbought == 70
Oversold == 30

----------------------------------------------------------------------------
(* Floats: a rational n/d with d > 0, nan, +inf / -inf (n = 1 / -1), and     *)
(* Python's None.                                                          *)

Num(n, d) == [t |-> "num", n |-> n, d |-> d]
NaN == [t |-> "nan", n |-> 0, d |-> 1]
Inf(s) == [t |-> "inf", n |-> s, d |-> 1]
None == [t |-> "None", n |-> 0, d |-> 1]

Sign(x) == IF x > 0 THEN 1 ELSE IF x < 0 THEN -1 ELSE 0

FNeg(a) ==
    IF a.t = "nan" THEN NaN
    ELSE IF a.t = "inf" THEN Inf(-a.n)
    ELSE Num(-a.n, a.d)

FAdd(a, b) ==
    IF a.t = "nan" \/ b.t = "nan" THEN NaN
    ELSE IF a.t = "inf" /\ b.t = "inf" THEN (IF a.n = b.n THEN a ELSE NaN)
    ELSE IF a.t = "inf" THEN a
    ELSE IF b.t = "inf" THEN b
    ELSE Num(a.n * b.d + b.n * a.d, a.d * b.d)

FSub(a, b) == FAdd(a, FNeg(b))

FDiv(a, b) ==
    IF a.t = "nan" \/ b.t = "nan" THEN NaN
    ELSE IF a.t = "inf" THEN
        (IF b.t = "inf" THEN NaN ELSE Inf(a.n * (IF b.n < 0 THEN -1 ELSE 1)))
    ELSE IF b.t = "inf" THEN Num(0, 1)
    ELSE IF b.n = 0 THEN (IF a.n = 0 THEN NaN ELSE Inf(Sign(a.n)))
    ELSE Num(a.n * b.d * Sign(b.n), a.d * b.n * Sign(b.n))

\* a > b and a < b on floats: false when either side is nan
FGt(a, b) ==
    IF a.t = "nan" \/ b.t = "nan" THEN FALSE
    ELSE IF a.t = "inf" THEN a.n = 1 /\ ~(b.t = "inf" /\ b.n = 1)
    ELSE IF b.t = "inf" THEN b.n = -1
    ELSE a.n * b.d > b.n * a.d

FLt(a, b) == FGt(b, a)

\* bool(x) of `if x:` for None and numpy floats: None and 0.0 are false, nan is true
Truthy(x) ==
    IF x.t = "None" THEN FALSE
    ELSE IF x.t = "num" THEN x.n # 0
    ELSE TRUE

\* f"{x:.2f}": x rounded to hundredths, ties to even; nan and inf print as such
Fmt2(x) ==
    IF x.t # "num" THEN x
    ELSE LET a == IF x.n < 0 THEN -x.n ELSE x.n
             q == (a * 100) \div x.d
             r == (a * 100) % x.d
             up == (2 * r > x.d) \/ (2 * r = x.d /\ q % 2 = 1)
             h == IF up THEN q + 1 ELSE q
         IN  Num(Sign(x.n) * h, 100)

----------------------------------------------------------------------------
(* pandas Series operations used by the script.  A column is a sequence of  *)
(* floats; the columns fed to rolling() hold whole numbers (d = 1) or nan.  *)

\* a column as an explicit tuple of its rows
Column(f) == SubSeq(f, 1, Len(f))

\* Series.diff(): nan at the first row, then x[i] - x[i-1]
diff(xs) ==
    Column([i \in 1..Len(xs) |-> IF i = 1 THEN NaN ELSE FSub(xs[i], xs[i - 1])])

\* delta.where(delta > 0, 0): keeps the value where the condition holds, else 0
WherePositive(xs) ==
    Column([i \in 1..Len(xs) |-> IF FGt(xs[i], Num(0, 1)) THEN xs[i] ELSE Num(0, 1)])

\* delta.where(delta < 0, 0)
WhereNegative(xs) ==
    Column([i \in 1..Len(xs) |-> IF FLt(xs[i], Num(0, 1)) THEN xs[i] ELSE Num(0, 1)])

Negate(xs) == Column([i \in 1..Len(xs) |-> FNeg(xs[i])])

\* Series.rolling(window=w).mean(), min_periods = w: the sliding sum adds row i,
\* drops row i-w, skips nan rows, and yields sum/nobs once nobs >= w
RECURSIVE Roll(_, _, _, _, _, _)
Roll(xs, w, i, sum, nobs, out) ==
    IF i > Len(xs) THEN out
    ELSE LET addS == IF xs[i].t = "num" THEN sum + xs[i].n ELSE sum
             addN == IF xs[i].t = "num" THEN nobs + 1 ELSE nobs
             old  == i - w
             s2   == IF old >= 1 /\ xs[old].t = "num" THEN addS - xs[old].n ELSE addS
             n2   == IF old >= 1 /\ xs[old].t = "num" THEN addN - 1 ELSE addN
             res  == IF n2 >= w THEN Num(s2, n2) ELSE NaN
         IN  Roll(xs, w, i + 1, s2, n2, Append(out, res))

\* the window one row short
RollingMeanShort(xs, w) == Roll(xs, w - 1, 1, 0, 0, << >>)

RollingMean(xs, w) == Roll(xs, w, 1, 0, 0, << >>)

\* gain / loss and 100 - (100 / (1 + rs)), row by row
SeriesDiv(xs, ys) == Column([i \in 1..Len(xs) |-> FDiv(xs[i], ys[i])])

\* the 1 + of the denominator left out
RsiOfNoOne(x) == FSub(Num(100, 1), FDiv(Num(100, 1), x))

RsiOf(x) == FSub(Num(100, 1), FDiv(Num(100, 1), FAdd(Num(1, 1), x)))

Last(xs) == xs[Len(xs)]

----------------------------------------------------------------------------
(* The page: what st.* calls put on it, in order *)

\* st.metric(label, value, delta): val is the value as formatted, delta the
\* numeric part of the delta text and note its wording
Metric(label, v, d, note) ==
    [kind |-> "metric", text |-> label, val |-> v, delta |-> d, note |-> note]
Elem(kind, text) ==
    [kind |-> kind, text |-> text, val |-> None, delta |-> None, note |-> ""]

\* a frame without columns
EmptyFrame == [c \in {} |-> << >>]

\* the steps of a run that the environment can make raise
Steps == {"fetch", "extract", "chart", "fallback", "volume", "indicators", "table"}

\* the state of a run in progress: what it has shown and computed so far, and
\* ctl: running, stopped (st.stop()), raised (an exception on its way to l.233)
Start(data) ==
    [page |-> << >>, ctl |-> "running", data |-> data, df |-> EmptyFrame,
     ma20_value |-> None, ma50_value |-> None, rsi_val |-> None,
     delta |-> << >>, gain |-> << >>, loss |-> << >>, rs |-> << >>,
     display_df |-> << >>]

Show(r, elems) == [r EXCEPT !.page = r.page \o elems]

\* the empty check left out
IsEmptyNever(data) == FALSE

\* l.59: df is None or df.empty or len(df) == 0
IsEmpty(data) == Len(data) = 0

\* <= for <
TooFewInclusive(data) == Len(data) <= MinBars

\* l.65: len(df) < 2
TooFew(data) == Len(data) < MinBars

\* l.56-70: the download and the two data checks.  st.stop() ends the run by
\* a control exception that is no Exception, so l.233 does not catch it
FetchData(r, F) ==
    IF "fetch" \in F THEN [r EXCEPT !.ctl = "raised"]
    ELSE LET d == [r EXCEPT !.df =
                      [Close |-> Column([i \in 1..Len(r.data) |-> Num(r.data[i], 1)])]]
         IN  IF IsEmpty(r.data) THEN
                 [Show(d, <<Elem("error", "No data found"),
                            Elem("info", "Make sure to use .NS suffix")>>)
                     EXCEPT !.ctl = "stopped"]
             ELSE IF TooFew(r.data) THEN
                 [Show(d, <<Elem("error", "Insufficient data")>>)
                     EXCEPT !.ctl = "stopped"]
             ELSE Show(d, <<Elem("success", "Loaded")>>)

\* l.73-102: the latest values and the metrics row (of the four metrics the
\* one built from the Close column; the delta text by its change part)
PriceMetrics(r, F) ==
    IF r.ctl # "running" THEN r
    ELSE IF "extract" \in F THEN
        [Show(r, <<Elem("error", "Error processing data"),
                   Elem("write", "Data structure:"),
                   Elem("write", "df.head()")>>)
            EXCEPT !.ctl = "stopped"]
    ELSE LET close == r.df.Close
             current_price == Last(close)
             prev_close == close[Len(close) - 1]
             change == FSub(current_price, prev_close)
         IN  Show(r, <<Metric("Current Price", Fmt2(current_price), Fmt2(change), "")>>)

\* l.105-147: the candlestick chart, and the line chart when it raises
PriceChart(r, F) ==
    IF r.ctl # "running" THEN r
    ELSE LET h == Show(r, <<Elem("subheader", "Price Chart")>>)
         IN  IF "chart" \notin F THEN Show(h, <<Elem("plotly_chart", "candlestick")>>)
             ELSE LET e == Show(h, <<Elem("error", "Chart error"),
                                     Elem("subheader", "Closing Price (Line Chart)")>>)
                  IN  IF "fallback" \in F THEN [e EXCEPT !.ctl = "raised"]
                      ELSE Show(e, <<Elem("line_chart", "Close")>>)

\* l.150-161
VolumeChart(r, F) ==
    IF r.ctl # "running" THEN r
    ELSE LET h == Show(r, <<Elem("subheader", "Trading Volume")>>)
         IN  IF "volume" \notin F THEN Show(h, <<Elem("plotly_chart", "volume")>>)
             ELSE Show(h, <<Elem("warning", "Could not create volume chart")>>)

\* l.168-189: the three indicators; a column is added to df only when the
\* frame is long enough
Calculated(r) ==
    LET close == r.df.Close
        n     == Len(close)
        MA20  == RollingMean(close, W20)
        MA50  == RollingMean(close, W50)
        d     == diff(close)
        g     == RollingMean(WherePositive(d), W14)
        l     == RollingMean(Negate(WhereNegative(d)), W14)
        q     == SeriesDiv(g, l)
        RSI   == Column([i \in 1..n |-> RsiOf(q[i])])
        cols  == {"Close"} \cup (IF n >= W20 THEN {"MA20"} ELSE {})
                           \cup (IF n >= W50 THEN {"MA50"} ELSE {})
                           \cup (IF n >= W14 THEN {"RSI"} ELSE {})
    IN  [r EXCEPT
            !.df = [c \in cols |-> IF c = "MA20" THEN MA20
                                   ELSE IF c = "MA50" THEN MA50
                                   ELSE IF c = "RSI" THEN RSI
                                   ELSE close],
            !.ma20_value = IF n >= W20 THEN Last(MA20) ELSE None,
            !.ma50_value = IF n >= W50 THEN Last(MA50) ELSE None,
            !.delta = IF n >= W14 THEN d ELSE << >>,
            !.gain  = IF n >= W14 THEN g ELSE << >>,
            !.loss  = IF n >= W14 THEN l ELSE << >>,
            !.rs    = IF n >= W14 THEN q ELSE << >>,
            !.rsi_val    = IF n >= W14 THEN Last(RSI) ELSE None]

\* l.208
rsi_signal(v) ==
    IF FGt(v, Num(Overbought, 1)) THEN "Overbought"
    ELSE IF FLt(v, Num(Oversold, 1)) THEN "Oversold"
    ELSE "Neutral"

\* l.194-211: one column of the indicator row
ShowMA(label, v) ==
    IF Truthy(v) THEN Metric(label, Fmt2(v), None, "")
    ELSE Elem("info", label \o ": Insufficient data")

ShowRSI(v) ==
    IF Truthy(v) THEN Metric("RSI (14)", Fmt2(v), None, rsi_signal(v))
    ELSE Elem("info", "RSI: Insufficient data")

\* l.163-214
TechnicalIndicators(r, F) ==
    IF r.ctl # "running" THEN r
    ELSE LET h == Show(r, <<Elem("subheader", "Technical Indicators")>>)
         IN  IF "indicators" \in F THEN
                 Show(h, <<Elem("warning", "Could not calculate technical indicators")>>)
             ELSE LET c == Calculated(h)
                  IN  Show(c, <<ShowMA("MA 20", c.ma20_value),
                                ShowMA("MA 50", c.ma50_value),
                                ShowRSI(c.rsi_val)>>)

\* l.220-226: the last rows, newest first, prices rounded to two places
RecentRows(close) ==
    LET n == Len(close)
        k == IF n < TailRows THEN n ELSE TailRows
    IN  Column([i \in 1..k |-> Fmt2(close[n + 1 - i])])

\* l.216-231
RecentData(r, F) ==
    IF r.ctl # "running" THEN r
    ELSE LET h == Show(r, <<Elem("subheader", "Recent Trading Data")>>)
         IN  IF "table" \in F THEN
                 Show(h, <<Elem("warning", "Could not display recent data")>>)
             ELSE [Show(h, <<Elem("dataframe", "display_df")>>)
                      EXCEPT !.display_df = RecentRows(h.df.Close)]

\* l.233-241: the handler of the outer try
OuterExcept(r) ==
    IF r.ctl # "raised" THEN r
    ELSE [Show(r, <<Elem("error", "Unexpected error"),
                    Elem("info", "Please try again or select a different stock"),
                    Elem("expander", "Debug Information")>>)
             EXCEPT !.ctl = "aborted"]

\* l.53-241: the main content of a run that fetches
MainContent(data, F) ==
    OuterExcept(
        RecentData(
            TechnicalIndicators(
                VolumeChart(
                    PriceChart(
                        PriceMetrics(
                            FetchData(Start(data), F), F), F), F), F), F))

\* l.244-260
Landing ==
    <<Elem("info", "Select a stock from the sidebar and click 'Analyze Stock'"),
      Elem("subheader", "Popular Indian Stocks"),
      Elem("info", "RELIANCE.NS"), Elem("info", "TCS.NS"), Elem("info", "INFY.NS"),
      Elem("info", "HDFCBANK.NS"), Elem("info", "ITC.NS")>>

\* l.263-265: reached unless st.stop() ended the run
Footer == <<Elem("caption", "footer")>>

----------------------------------------------------------------------------
(* The inputs *)

\* l.16-37: the default stock and one custom entry; l.40: two of the periods
Tickers == {"RELIANCE.NS", "SBIN.BO"}
Periods == {"1mo", "5y"}

\* A close series of n bars starting at Base: the day-over-day steps alternate
\* a, b before step k and are c from step k on
RECURSIVE Build(_, _, _, _, _, _)
Build(n, a, b, c, k, out) ==
    IF Len(out) >= n THEN out
    ELSE IF Len(out) = 0 THEN Build(n, a, b, c, k, <<Base>>)
    ELSE LET j == Len(out)
             step == IF j < k THEN (IF j % 2 = 1 THEN a ELSE b) ELSE c
         IN  Build(n, a, b, c, k, Append(out, Last(out) + step))

Series(n, a, b, c, k) == Build(n, a, b, c, k, << >>)

StepSet == {-2, 0, 1}
SwitchSet == {1, 7, 14, 40}

\* the series the indicator claims are checked on
SeriesSet ==
    {Series(n, a, b, c, k) : n \in 0..MaxLen, a \in StepSet, b \in StepSet,
                             c \in StepSet, k \in SwitchSet}

\* the series the provider serves in the session specification
FetchSet ==
    {Series(n, 1, -2, -2, 7) : n \in {0, 1, MinBars, W14, W20}}

\* the ways the steps of one run can raise: an exception in the download, in
\* the extraction or in the fallback chart ends the run, so nothing after it
\* is asked to raise; the fallback chart is only reached when the chart raised
FailSets ==
    {F \in SUBSET Steps :
        /\ "fetch" \in F => F = {"fetch"}
        /\ "extract" \in F => F = {"extract"}
        /\ "fallback" \in F => F = {"chart", "fallback"}}

----------------------------------------------------------------------------
(* One run of the script *)

NoState == [k \in {} |-> TRUE]

\* l.43-46
AfterButton(clicked, t, p) ==
    IF clicked
    THEN [fetch_data |-> TRUE, current_ticker |-> t, current_period |-> p]
    ELSE session_state

\* l.49
Fetching(ss) == "fetch_data" \in DOMAIN ss /\ ss.fetch_data

\* the sidebar's ticker used whatever the session holds
UsedTickerSidebar(ss, t) == t

\* l.50-51: session_state.get(key, default)
UsedTicker(ss, t) == IF "current_ticker" \in DOMAIN ss THEN ss.current_ticker ELSE t
UsedPeriod(ss, p) == IF "current_period" \in DOMAIN ss THEN ss.current_period ELSE p

\* l.8-266 with the widgets yielding t and p, the button yielding clicked, and
\* the steps in F raising
Script(clicked, t, p, F) ==
    LET ss == AfterButton(clicked, t, p)
    IN  /\ ticker' = t
        /\ period' = p
        /\ session_state' = ss
        /\ last_click' = IF clicked THEN <<t, p>> ELSE last_click
        /\ IF Fetching(ss)
           THEN \E r \in {MainContent(market, F)} :
                    /\ fetched' = <<UsedTicker(ss, t), UsedPeriod(ss, p)>>
                    /\ df' = r.df
                    /\ ma20_value' = r.ma20_value
                    /\ ma50_value' = r.ma50_value
                    /\ rsi_val' = r.rsi_val
                    /\ delta' = r.delta
                    /\ gain' = r.gain
                    /\ loss' = r.loss
                    /\ rs' = r.rs
                    /\ display_df' = r.display_df
                    /\ page' = IF r.ctl = "stopped" THEN r.page ELSE r.page \o Footer
                    /\ run_end' = IF r.ctl = "running" THEN "done" ELSE r.ctl
           ELSE /\ fetched' = << >>
                /\ df' = EmptyFrame
                /\ ma20_value' = None
                /\ ma50_value' = None
                /\ rsi_val' = None
                /\ delta' = << >>
                /\ gain' = << >>
                /\ loss' = << >>
                /\ rs' = << >>
                /\ display_df' = << >>
                /\ page' = Landing \o Footer
                /\ run_end' = "landing"

\* the page as first loaded: a run with the widgets' defaults and no click
Init ==
    /\ ticker = "RELIANCE.NS"
    /\ period = "1mo"
    /\ session_state = NoState
    /\ market \in FetchSet
    /\ fetched = << >>
    /\ df = EmptyFrame
    /\ ma20_value = None
    /\ ma50_value = None
    /\ rsi_val = None
    /\ delta = << >>
    /\ gain = << >>
    /\ loss = << >>
    /\ rs = << >>
    /\ display_df = << >>
    /\ page = Landing \o Footer
    /\ run_end = "landing"
    /\ last_click = << >>

\* a sidebar widget changes: the script reruns, the button yields False
SidebarChange(t, p, F) ==
    /\ <<t, p>> # <<ticker, period>>
    /\ Script(FALSE, t, p, F)
    /\ UNCHANGED market

\* the Analyze button is clicked: the script reruns, the button yields True
AnalyzeClick(F) ==
    /\ Script(TRUE, ticker, period, F)
    /\ UNCHANGED market

\* the provider's data changes between runs
MarketMove(s) ==
    /\ s # market
    /\ market' = s
    /\ UNCHANGED <<ticker, period, session_state, fetched, df, ma20_value,
                   ma50_value, rsi_val, delta, gain, loss, rs, display_df, page,
                   run_end, last_click>>

Next ==
    \/ \E t \in Tickers, p \in Periods, F \in FailSets : SidebarChange(t, p, F)
    \/ \E F \in FailSets : AnalyzeClick(F)
    \/ \E s \in FetchSet : MarketMove(s)

Spec == Init /\ [][Next]_vars

\* the indicator calculation on every series of SeriesSet: the first Analyze
\* click on a page whose provider serves the series, no step raising
InitCalc ==
    /\ ticker = "RELIANCE.NS"
    /\ period = "1mo"
    /\ session_state = NoState
    /\ market \in SeriesSet
    /\ fetched = << >>
    /\ df = EmptyFrame
    /\ ma20_value = None
    /\ ma50_value = None
    /\ rsi_val = None
    /\ delta = << >>
    /\ gain = << >>
    /\ loss = << >>
    /\ rs = << >>
    /\ display_df = << >>
    /\ page = Landing \o Footer
    /\ run_end = "landing"
    /\ last_click = << >>

NextCalc == AnalyzeClick({})

SpecCalc == InitCalc /\ [][NextCalc]_vars

----------------------------------------------------------------------------
(* What the claims speak of *)

\* the closes of rows a..b of a column of whole numbers, summed
RECURSIVE WindowSum(_, _, _)
WindowSum(xs, a, b) == IF a > b THEN 0 ELSE xs[a].n + WindowSum(xs, a + 1, b)

\* a float equal to the rational n/d
Equals(x, n, d) == x.t = "num" /\ x.n * d = n * x.d

Shown(kind, text) == \E i \in 1..Len(page) : page[i].kind = kind /\ page[i].text = text
ShownMetric(label, v) ==
    \E i \in 1..Len(page) :
        page[i].kind = "metric" /\ page[i].text = label /\ page[i].val = v

\* the last run downloaded a frame
Downloaded == "Close" \in DOMAIN df
Bars == Len(df.Close)

\* the last run went through its indicator block
Calculating == run_end = "done" /\ Shown("subheader", "Technical Indicators")
               /\ ~Shown("warning", "Could not calculate technical indicators")

Windows == {W20, W50}
ColumnOf(W) == IF W = W20 THEN "MA20" ELSE "MA50"
LabelOf(W) == IF W = W20 THEN "MA 20" ELSE "MA 50"
ValueOf(W) == IF W = W20 THEN ma20_value ELSE ma50_value

\* C1: for W in {20, 50} and a series of at least W bars, the moving-average
\* column is as long as the series, is nan at the rows before the W-th and is
\* the mean of the W closes ending at the row from the W-th row on; the value
\* shown as the MA metric is the one of the last row.
C1_MovingAverage ==
    \A W \in Windows :
        (Calculating /\ Bars >= W) =>
            /\ ColumnOf(W) \in DOMAIN df
            /\ Len(df[ColumnOf(W)]) = Bars
            /\ \A i \in 1..Bars :
                  IF i < W THEN df[ColumnOf(W)][i].t = "nan"
                  ELSE Equals(df[ColumnOf(W)][i], WindowSum(df.Close, i - W + 1, i), W)
            /\ ValueOf(W) = df[ColumnOf(W)][Bars]
            /\ ShownMetric(LabelOf(W), Fmt2(df[ColumnOf(W)][Bars]))

\* a run on more than 50 bars whose 50-bar mean moved at the last row
C1_Witness ==
    /\ Calculating /\ Bars > W50
    /\ ShownMetric("MA 50", Fmt2(ma50_value))
    /\ ~Equals(df.MA50[Bars - 1], ma50_value.n, ma50_value.d)
    /\ ~Equals(ma20_value, ma50_value.n, ma50_value.d)

\* C3: on a series of at least 14 bars, wherever the 14-row mean of the losses
\* is strictly positive, the RSI of that row is a number in [0, 100].
C3_RsiBounded ==
    (Calculating /\ Bars >= W14) =>
        \A i \in 1..Bars :
            (loss[i].t = "num" /\ loss[i].n > 0) =>
                /\ df.RSI[i].t = "num"
                /\ ~FLt(df.RSI[i], Num(0, 1))
                /\ ~FGt(df.RSI[i], Num(100, 1))

\* a row with both gains and losses in its window: an RSI strictly inside (0, 100)
C3_Witness ==
    /\ Calculating /\ Bars >= W14
    /\ loss[Bars].t = "num" /\ loss[Bars].n > 0
    /\ gain[Bars].t = "num" /\ gain[Bars].n > 0
    /\ FGt(rsi_val, Num(0, 1)) /\ FLt(rsi_val, Num(100, 1))

\* C4: on a series of at least 14 bars whose 14-row mean of losses is 0 at the
\* last row, the RSI of the last row is 100, whatever the mean gain.
C4_ZeroLossIsHundred ==
    (Calculating /\ Bars >= W14 /\ Equals(loss[Bars], 0, 1)) =>
        Equals(rsi_val, 100, 1)

StrictlyDecreasing(xs) == \A i \in 2..Len(xs) : FLt(xs[i], xs[i - 1])

\* C5: on a strictly decreasing series of at least 14 bars the RSI of the last
\* bar is 0, and the run shows that 0 as the RSI metric.
C5_DecreasingShowsZero ==
    (Calculating /\ Bars >= W14 /\ StrictlyDecreasing(df.Close)) =>
        /\ Equals(rsi_val, 0, 1)
        /\ ShownMetric("RSI (14)", Fmt2(rsi_val))

\* C6: the RSI column is nan at each of the first 14 rows (the rows that do
\* not have 14 day-over-day differences behind them).
C6_RsiNeedsFourteenDiffs ==
    (Calculating /\ Bars >= W14) =>
        \A i \in 1..W14 : df.RSI[i].t = "nan"

\* C9: an indicator is shown as "Insufficient data" exactly when the series
\* is shorter than its window, and as a metric whenever it is long enough.
C9_InsufficientIffShort ==
    Calculating =>
        /\ \A W \in Windows :
              /\ Shown("info", LabelOf(W) \o ": Insufficient data") <=> Bars < W
              /\ Bars >= W => ShownMetric(LabelOf(W), Fmt2(ValueOf(W)))
        /\ Shown("info", "RSI: Insufficient data") <=> Bars < W14
        /\ Bars >= W14 => ShownMetric("RSI (14)", Fmt2(rsi_val))

Indicators == {"MA20", "MA50", "RSI"}
WindowOf(c) == IF c = "MA20" THEN W20 ELSE IF c = "MA50" THEN W50 ELSE W14
InfoOf(c) ==
    IF c = "MA20" THEN "MA 20: Insufficient data"
    ELSE IF c = "MA50" THEN "MA 50: Insufficient data"
    ELSE "RSI: Insufficient data"
MetricOf(c) == IF c = "MA20" THEN "MA 20" ELSE IF c = "MA50" THEN "MA 50" ELSE "RSI (14)"
ComputedOf(c) ==
    IF c = "MA20" THEN ma20_value ELSE IF c = "MA50" THEN ma50_value ELSE rsi_val

PricesAndTable ==
    /\ run_end = "done"
    /\ Shown("metric", "Current Price")
    /\ Shown("dataframe", "display_df")
    /\ display_df # << >>

\* C2 as claimed: for every non-empty series shorter than an indicator's
\* window, 1 bar included, that indicator alone is reported as insufficient
\* data and the price metrics, the other indicators and the table are produced.
C2_ShortSeriesFromOneBar ==
    (Downloaded /\ Bars >= 1 /\ Bars < W50) =>
        /\ PricesAndTable
        /\ \A c \in Indicators :
              IF Bars < WindowOf(c) THEN Shown("info", InfoOf(c))
              ELSE /\ ~Shown("info", InfoOf(c))
                   /\ ShownMetric(MetricOf(c), Fmt2(ComputedOf(c)))

\* C2 as amended: for every series of at least 2 bars shorter than an
\* indicator's window, that indicator is reported as insufficient data and the
\* run does not fail: the price metrics, the table and a computed value of
\* every indicator whose window is satisfied are produced (the value is shown
\* as a metric unless it is 0); a series of 1 bar stops the run at the
\* 2-data-point check with an error and nothing else.
C2_ShortSeries ==
    /\ (Downloaded /\ Bars >= MinBars /\ Bars < W50) =>
          /\ PricesAndTable
          /\ \A c \in Indicators :
                IF Bars < WindowOf(c)
                THEN Shown("info", InfoOf(c)) /\ ComputedOf(c) = None
                ELSE /\ ComputedOf(c) # None
                     /\ c \in DOMAIN df
                     /\ ComputedOf(c) = df[c][Bars]
                     /\ IF Truthy(ComputedOf(c))
                        THEN ShownMetric(MetricOf(c), Fmt2(ComputedOf(c)))
                        ELSE Shown("info", InfoOf(c))
    /\ (Downloaded /\ Bars = 1) =>
          /\ run_end = "stopped"
          /\ page = <<Elem("error", "Insufficient data")>>

\* between 20 and 49 bars: MA 50 alone is insufficient, MA 20 and RSI are shown
C2_Witness ==
    /\ Downloaded /\ Bars >= W20 /\ Bars < W50 /\ run_end = "done"
    /\ Shown("info", "MA 50: Insufficient data")
    /\ ShownMetric("MA 20", Fmt2(ma20_value))
    /\ ShownMetric("RSI (14)", Fmt2(rsi_val))
    /\ Shown("dataframe", "display_df")

\* C7 as claimed: on an empty download the run reports insufficient data for
\* each of the three indicators and runs to its end.
C7_EmptyReportsIndicators ==
    (Downloaded /\ Bars = 0) =>
        /\ \A c \in Indicators : Shown("info", InfoOf(c))
        /\ run_end = "done"

\* C7 as amended: on an empty download the run shows the "No data found"
\* error and its hint and stops there without raising; no indicator is
\* computed or reported and nothing after the check is rendered.
C7_EmptyStops ==
    (Downloaded /\ Bars = 0) =>
        /\ page = <<Elem("error", "No data found"),
                    Elem("info", "Make sure to use .NS suffix")>>
        /\ run_end = "stopped"
        /\ \A c \in Indicators : ComputedOf(c) = None /\ ~Shown("info", InfoOf(c))
        /\ ~Shown("error", "Unexpected error")

C7_Witness ==
    /\ Downloaded /\ Bars = 0 /\ run_end = "stopped"
    /\ Shown("error", "No data found")
    /\ Fetching(session_state)

\* C8: in a run that passed the data checks, a failure in the price chart
\* (its fallback line chart included), the volume chart, the indicators or
\* the table is caught at that step and the later steps run: the table step
\* is always reached.
C8_StepsIsolated ==
    (Downloaded /\ Shown("subheader", "Price Chart")) =>
        /\ Shown("subheader", "Trading Volume")
        /\ Shown("subheader", "Technical Indicators")
        /\ Shown("subheader", "Recent Trading Data")
        /\ ~Shown("error", "Unexpected error")
        /\ run_end = "done"

\* C10: no download and the landing page until the first Analyze click; from
\* then on the fetch flag stays set, every run downloads, and the ticker and
\* period downloaded are those of the sidebar at the latest click.
C10_SessionInv ==
    IF Fetching(session_state)
    THEN /\ last_click # << >>
         /\ fetched = last_click
         /\ run_end # "landing"
         /\ ~Shown("info", "Select a stock from the sidebar and click 'Analyze Stock'")
    ELSE /\ last_click = << >>
         /\ fetched = << >>
         /\ run_end = "landing"
         /\ page = Landing \o Footer
         /\ ~Downloaded

C10_Session ==
    /\ [](C10_SessionInv)
    /\ [][Fetching(session_state) => Fetching(session_state')]_vars

\* a run after the sidebar moved away from what was clicked
C10_Witness ==
    /\ Fetching(session_state)
    /\ fetched # << >>
    /\ fetched[1] # ticker
    /\ fetched[2] # period
    /\ run_end = "done"

====
